---- MODULE Spec2Model ----
(***************************************************************************)
(* LicenseBot: the two-step licence exchange flow of src/main.py           *)
(* (LicenseExchangePlugin).  Texts are sequences of one-character strings; *)
(* a character the lexer of TLA+ cannot hold is written by its name        *)
(* ("shou", "quan" for the two characters of the Chinese keyword,          *)
(* "U+00E9" for a non-ASCII letter).  Outbound messages are named by an     *)
(* English gloss of the literal the code yields.                           *)
(***************************************************************************)
EXTENDS Integers, Sequences, FiniteSets, TLC

(***************************************************************************)
(* Bounds of the model.                                                    *)
(***************************************************************************)
MaxFlows == 2

FlowIds == 1..MaxFlows

SessionKeys == {"k1", "k2"}

(***************************************************************************)
(* Characters.                                                             *)
(***************************************************************************)
Digits == {"0", "1", "2", "3", "4", "5", "6", "7", "8", "9"}

AsciiLetters == {"A", "B", "D", "J", "Q", "R", "U", "a", "b", "c", "e", "h",
                 "i", "l", "n", "s", "t", "u", "x"}

NonAsciiAlnum == {"U+00E9", "shou", "quan"}

Whitespace == {" ", "\t", "\n"}

\* Python's None
None == [t |-> "NoneType"]

\* str.isalnum() of one character
isalnum(ch) == ch \in Digits \cup AsciiLetters \cup NonAsciiAlnum

\* the 64 characters binascii's table maps to a value
IsBase64Digit(ch) == ch \in Digits \cup AsciiLetters \cup {"+", "/"}

RECURSIVE lstrip(_)
lstrip(s) ==
    IF s # <<>> /\ Head(s) \in Whitespace THEN lstrip(Tail(s)) ELSE s

RECURSIVE rstrip(_)
rstrip(s) ==
    IF s # <<>> /\ s[Len(s)] \in Whitespace
    THEN rstrip(SubSeq(s, 1, Len(s) - 1))
    ELSE s

\* str.strip()
strip(s) == rstrip(lstrip(s))

(***************************************************************************)
(* _safe_int: int(str(s).strip()), None when int() raises.                 *)
(***************************************************************************)
DigitValue(ch) ==
    CASE ch = "0" -> 0 [] ch = "1" -> 1 [] ch = "2" -> 2 [] ch = "3" -> 3
      [] ch = "4" -> 4 [] ch = "5" -> 5 [] ch = "6" -> 6 [] ch = "7" -> 7
      [] ch = "8" -> 8 [] ch = "9" -> 9

\* the digit part of a decimal literal: digits, single underscores between them
RECURSIVE IsDigitPart(_, _)
IsDigitPart(s, afterDigit) ==
    IF s = <<>> THEN afterDigit
    ELSE IF Head(s) \in Digits THEN IsDigitPart(Tail(s), TRUE)
    ELSE IF Head(s) = "_" THEN afterDigit /\ IsDigitPart(Tail(s), FALSE)
    ELSE FALSE

RECURSIVE DigitPartValue(_, _)
DigitPartValue(s, acc) ==
    IF s = <<>> THEN acc
    ELSE IF Head(s) = "_" THEN DigitPartValue(Tail(s), acc)
    ELSE DigitPartValue(Tail(s), 10 * acc + DigitValue(Head(s)))

\* int(text) for a str: [ok |-> FALSE] stands for ValueError
int_of_str(text) ==
    LET s == strip(text)
        signed == s # <<>> /\ Head(s) \in {"+", "-"}
        body == IF signed THEN Tail(s) ELSE s
    IN  IF IsDigitPart(body, FALSE)
        THEN [ok |-> TRUE,
              value |-> IF signed /\ Head(s) = "-"
                        THEN 0 - DigitPartValue(body, 0)
                        ELSE DigitPartValue(body, 0)]
        ELSE [ok |-> FALSE]

\* a Python int as a value of the model
PyInt(n) == [t |-> "int", i |-> n]

safe_int(s) ==
    LET r == int_of_str(strip(s))
    IN  IF r.ok THEN PyInt(r.value) ELSE None

(***************************************************************************)
(* _looks_like_base64.                                                     *)
(***************************************************************************)
\* binascii.a2b_base64 without strict mode: TRUE when it returns, FALSE when
\* it raises binascii.Error
RECURSIVE a2b_base64(_, _, _)
a2b_base64(s, quad_pos, pads) ==
    IF s = <<>> THEN quad_pos = 0
    ELSE IF Head(s) = "="
    THEN IF quad_pos >= 2 /\ quad_pos + pads + 1 >= 4
         THEN TRUE
         ELSE a2b_base64(Tail(s), quad_pos,
                         IF quad_pos >= 2 THEN pads + 1 ELSE pads)
    ELSE IF ~IsBase64Digit(Head(s))
    THEN a2b_base64(Tail(s), quad_pos, pads)
    ELSE a2b_base64(Tail(s), (quad_pos + 1) % 4, 0)

\* base64.b64decode(s, validate=False) of a str: a character outside ASCII
\* raises ValueError before the decoder runs
b64decode_ok(s) ==
    /\ \A i \in 1..Len(s) : s[i] \notin NonAsciiAlnum
    /\ a2b_base64(s, 0, 0)

RECURSIVE Repeat(_, _)
Repeat(ch, n) == IF n <= 0 THEN <<>> ELSE <<ch>> \o Repeat(ch, n - 1)

\* mutant: the loop over the characters is missing
looks_like_base64_no_alphabet(text) ==
    LET s == strip(text)
        pad == (0 - Len(s)) % 4
    IN  /\ s # <<>>
        /\ b64decode_ok(s \o Repeat("=", pad))

looks_like_base64(text) ==
    LET s == strip(text)
        pad == (0 - Len(s)) % 4
    IN  /\ s # <<>>
        /\ \A i \in 1..Len(s) : isalnum(s[i]) \/ s[i] \in {"+", "/", "=", "_", "-"}
        /\ b64decode_ok(s \o Repeat("=", pad))

(***************************************************************************)
(* Python values that json.loads can return.  A dict is a function from    *)
(* its keys; a str inside a body is kept whole (the flow never looks       *)
(* inside one); an int keeps its literal, since an epoch in milliseconds   *)
(* does not fit the checker's integers.                                    *)
(***************************************************************************)
PyBool(b) == [t |-> "bool", b |-> b]

PyLit(lit) == [t |-> "int", lit |-> lit]

PyFloat(lit) == [t |-> "float", lit |-> lit]

PyStr(text) == [t |-> "str", s |-> text]

PyList(n) == [t |-> "list", len |-> n]

PyDict(items) == [t |-> "dict", d |-> items]

EmptyDict == [t |-> "dict", d |-> <<>>]

isinstance(v, types) == v.t \in types

\* bool(v)
truthy(v) ==
    CASE v.t = "NoneType" -> FALSE
      [] v.t = "bool" -> v.b
      [] v.t = "int" -> v.lit \notin {"0", "-0"}
      [] v.t = "float" -> v.lit \notin {"0.0", "-0.0"}
      [] v.t = "str" -> v.s # ""
      [] v.t = "list" -> v.len > 0
      [] v.t = "dict" -> DOMAIN v.d # {}

\* dict.get(k, default)
get(dict, k, default) == IF k \in DOMAIN dict.d THEN dict.d[k] ELSE default

\* x or y
or(x, y) == IF truthy(x) THEN x ELSE y

GoodSystemInfo ==
    PyDict([androidId |-> PyStr("abc123"), manufacturer |-> PyStr("Acme"),
            model |-> PyStr("X1"), product |-> PyStr("x1prod")])

\* the bodies the remote service answers with, and what json.loads makes of
\* each ([ok |-> FALSE] stands for the exception it raises)
BodyGood == "{\"ok\": true, \"system_info\": {\"androidId\": \"abc123\", \"manufacturer\": \"Acme\", \"model\": \"X1\", \"product\": \"x1prod\"}, \"expire\": 1700000000000, \"license\": \"LIC-XYZ\"}"

BodyOkOne == "{\"ok\": 1, \"system_info\": {\"model\": \"X1\"}, \"expire\": 1700000000000.5, \"license\": \"LIC-2\"}"

BodyOkOnly == "{\"ok\": true}"

BodyNullFields == "{\"ok\": true, \"system_info\": null, \"expire\": null, \"license\": \"LIC-3\"}"

BodyListInfo == "{\"ok\": true, \"system_info\": [\"abc123\"], \"expire\": 1700000000000, \"license\": \"LIC-XYZ\"}"

BodyStrInfo == "{\"ok\": true, \"system_info\": \"abc123\", \"expire\": 1700000000000, \"license\": \"LIC-XYZ\"}"

BodyInfExpire == "{\"ok\": true, \"system_info\": {}, \"expire\": Infinity, \"license\": \"LIC-XYZ\"}"

BodyNanExpire == "{\"ok\": true, \"system_info\": {}, \"expire\": NaN, \"license\": \"LIC-XYZ\"}"

BodyHugeExpire == "{\"ok\": true, \"system_info\": {}, \"expire\": 1e30, \"license\": \"LIC-XYZ\"}"

BodyDenied == "{\"ok\": false, \"error\": \"bad device\"}"

BodyNoOk == "{\"error\": \"bad device\"}"

BodyEmptyDict == "{}"

BodyList == "[1]"

BodyNull == "null"

BodyString == "\"denied\""

BodyHtml == "<html>Bad Gateway</html>"

BodyEmpty == ""

\* a refusal whose error text is 480 characters long
Filler == "0123456789012345678901234567890123456789"

LongError ==
    Filler \o Filler \o Filler \o Filler \o Filler \o Filler
        \o Filler \o Filler \o Filler \o Filler \o Filler \o Filler

BodyLongError == "{\"ok\": false, \"error\": \"" \o LongError \o "\"}"

json_loads(text) ==
    CASE text = BodyGood ->
           [ok |-> TRUE,
            value |-> PyDict([ok |-> PyBool(TRUE), system_info |-> GoodSystemInfo,
                              expire |-> PyLit("1700000000000"),
                              license |-> PyStr("LIC-XYZ")])]
      [] text = BodyOkOne ->
           [ok |-> TRUE,
            value |-> PyDict([ok |-> PyLit("1"),
                              system_info |-> PyDict([model |-> PyStr("X1")]),
                              expire |-> PyFloat("1700000000000.5"),
                              license |-> PyStr("LIC-2")])]
      [] text = BodyOkOnly ->
           [ok |-> TRUE, value |-> PyDict([ok |-> PyBool(TRUE)])]
      [] text = BodyNullFields ->
           [ok |-> TRUE,
            value |-> PyDict([ok |-> PyBool(TRUE), system_info |-> None,
                              expire |-> None, license |-> PyStr("LIC-3")])]
      [] text = BodyListInfo ->
           [ok |-> TRUE,
            value |-> PyDict([ok |-> PyBool(TRUE), system_info |-> PyList(1),
                              expire |-> PyLit("1700000000000"),
                              license |-> PyStr("LIC-XYZ")])]
      [] text = BodyStrInfo ->
           [ok |-> TRUE,
            value |-> PyDict([ok |-> PyBool(TRUE), system_info |-> PyStr("abc123"),
                              expire |-> PyLit("1700000000000"),
                              license |-> PyStr("LIC-XYZ")])]
      [] text = BodyInfExpire ->
           [ok |-> TRUE,
            value |-> PyDict([ok |-> PyBool(TRUE), system_info |-> EmptyDict,
                              expire |-> PyFloat("inf"),
                              license |-> PyStr("LIC-XYZ")])]
      [] text = BodyNanExpire ->
           [ok |-> TRUE,
            value |-> PyDict([ok |-> PyBool(TRUE), system_info |-> EmptyDict,
                              expire |-> PyFloat("nan"),
                              license |-> PyStr("LIC-XYZ")])]
      [] text = BodyHugeExpire ->
           [ok |-> TRUE,
            value |-> PyDict([ok |-> PyBool(TRUE), system_info |-> EmptyDict,
                              expire |-> PyFloat("1e+30"),
                              license |-> PyStr("LIC-XYZ")])]
      [] text = BodyDenied ->
           [ok |-> TRUE,
            value |-> PyDict([ok |-> PyBool(FALSE), error |-> PyStr("bad device")])]
      [] text = BodyLongError ->
           [ok |-> TRUE,
            value |-> PyDict([ok |-> PyBool(FALSE), error |-> PyStr(LongError)])]
      [] text = BodyNoOk ->
           [ok |-> TRUE, value |-> PyDict([error |-> PyStr("bad device")])]
      [] text = BodyEmptyDict -> [ok |-> TRUE, value |-> EmptyDict]
      [] text = BodyList -> [ok |-> TRUE, value |-> PyList(1)]
      [] text = BodyNull -> [ok |-> TRUE, value |-> None]
      [] text = BodyString -> [ok |-> TRUE, value |-> PyStr("denied")]
      [] OTHER -> [ok |-> FALSE]

(***************************************************************************)
(* Presenter.                                                              *)
(***************************************************************************)
\* repr(v) of a scalar: a string goes between quotes
repr(v) ==
    CASE v.t = "str" -> "'" \o v.s \o "'"
      [] v.t = "int" -> v.lit
      [] v.t = "float" -> v.lit
      [] v.t = "bool" -> IF v.b THEN "True" ELSE "False"
      [] v.t = "NoneType" -> "None"

\* str(v): of a scalar; of a dict, its items in the order of the body (the
\* dicts of the refused bodies); of the list of BodyList
str(v) ==
    CASE v.t = "str" -> v.s
      [] v.t = "int" -> v.lit
      [] v.t = "float" -> v.lit
      [] v.t = "bool" -> IF v.b THEN "True" ELSE "False"
      [] v.t = "NoneType" -> "None"
      [] v.t = "list" -> "[1]"
      [] v.t = "dict" /\ DOMAIN v.d = {} -> "{}"
      [] v.t = "dict" /\ DOMAIN v.d = {"error"} ->
           "{'error': " \o repr(v.d.error) \o "}"
      [] v.t = "dict" /\ DOMAIN v.d = {"ok", "error"} ->
           "{'ok': " \o repr(v.d.ok) \o ", 'error': " \o repr(v.d.error) \o "}"

\* s[:n]
slice(s, n) == SubSeq(s, 1, IF Len(s) < n THEN Len(s) ELSE n)

\* int(x) of a float, by literal; a non-finite float raises
int_of_float(lit) ==
    CASE lit = "inf" -> [raised |-> TRUE, exc |-> "OverflowError"]
      [] lit = "nan" -> [raised |-> TRUE, exc |-> "ValueError"]
      [] lit = "1700000000000.5" -> [raised |-> FALSE, value |-> "1700000000000"]
      [] lit = "1e+30" ->
           [raised |-> FALSE, value |-> "1000000000000000019884624838656"]

\* int(expire) if isinstance(expire, (int, float)) else 0   (bool is an int)
int_of_expire(expire) ==
    CASE expire.t = "int" -> [raised |-> FALSE, value |-> expire.lit]
      [] expire.t = "bool" ->
           [raised |-> FALSE, value |-> IF expire.b THEN "1" ELSE "0"]
      [] expire.t = "float" -> int_of_float(expire.lit)
      [] OTHER -> [raised |-> FALSE, value |-> "0"]

\* the epochs datetime.fromtimestamp converts (years 1 to 9999)
TimestampInRange(ms) == ms \in {"0", "1", "1700000000000"}

fmt_expire_ms(ms) ==
    IF TimestampInRange(ms)
    THEN [format |-> "%Y-%m-%d %H:%M:%S %Z", ms |-> ms]
    ELSE [format |-> "str", ms |-> ms]

render_device_info(system_info, expire_ms) ==
    IF ~isinstance(system_info, {"dict"})
    THEN [raised |-> TRUE, exc |-> "AttributeError"]
    ELSE [raised |-> FALSE,
          value |->
            [kind |-> "device info",
             androidId |-> str(or(get(system_info, "androidId", PyStr("")), PyStr(""))),
             manufacturer |-> str(or(get(system_info, "manufacturer", PyStr("")), PyStr(""))),
             model |-> str(or(get(system_info, "model", PyStr("")), PyStr(""))),
             product |-> str(or(get(system_info, "product", PyStr("")), PyStr(""))),
             expire |-> fmt_expire_ms(expire_ms)]]

(***************************************************************************)
(* Exchange Client: _post_exchange, as a function of what the remote end   *)
(* did.  A response is [kind |-> "transport", error |-> e] (no response:   *)
(* connection failure, total timeout) or [kind |-> "http", status, text].  *)
(***************************************************************************)
\* mutant: the status is not looked at
post_exchange_any_status(resp) ==
    IF resp.kind = "transport"
    THEN [raised |-> TRUE, exc |-> [t |-> resp.error]]
    ELSE IF ~json_loads(resp.text).ok
    THEN [raised |-> TRUE, exc |-> [t |-> "RuntimeError", what |-> "Invalid JSON"]]
    ELSE [raised |-> FALSE, value |-> json_loads(resp.text).value]

\* mutant: 299 is taken for a failure
post_exchange_299(resp) ==
    IF resp.kind = "transport"
    THEN [raised |-> TRUE, exc |-> [t |-> resp.error]]
    ELSE IF resp.status < 200 \/ resp.status >= 299
    THEN [raised |-> TRUE, exc |-> [t |-> "RuntimeError", what |-> "HTTP", status |-> resp.status]]
    ELSE IF ~json_loads(resp.text).ok
    THEN [raised |-> TRUE, exc |-> [t |-> "RuntimeError", what |-> "Invalid JSON"]]
    ELSE [raised |-> FALSE, value |-> json_loads(resp.text).value]

post_exchange(resp) ==
    IF resp.kind = "transport"
    THEN [raised |-> TRUE, exc |-> [t |-> resp.error]]
    ELSE IF resp.status < 200 \/ resp.status >= 300
    THEN [raised |-> TRUE, exc |-> [t |-> "RuntimeError", what |-> "HTTP", status |-> resp.status]]
    ELSE IF ~json_loads(resp.text).ok
    THEN [raised |-> TRUE, exc |-> [t |-> "RuntimeError", what |-> "Invalid JSON"]]
    ELSE [raised |-> FALSE, value |-> json_loads(resp.text).value]

(***************************************************************************)
(* Outbound messages: event.plain_result(...) of each literal.             *)
(***************************************************************************)
Plain(text) == [kind |-> "plain", text |-> text]

MsgBusy == Plain("already in progress")

MsgAskDevice == Plain("please provide the device id")

MsgTimeout == Plain("timeout")

MsgError == Plain("error")

MsgBadDevice == Plain("device id format invalid")

MsgAskDays == Plain("please enter the number of days")

MsgBadDays == Plain("day count invalid")

MsgFailed == Plain("request failed")

\* str(data)[:400] of a response that is refused
MsgShort_whole(data) == [kind |-> "short", text |-> str(data)]

MsgShort(data) == [kind |-> "short", text |-> slice(str(data), 400)]

\* the trigger texts of on_message; Keyword is the bare Chinese keyword
Keyword == <<"shou", "quan">>

triggers ==
    {Keyword, <<"/">> \o Keyword, <<"l", "i", "c", "e", "n", "s", "e">>,
     <<"a", "u", "t", "h">>}

(***************************************************************************)
(* State.  One flow per inbound event handed to on_message; its record     *)
(* holds the locals of on_message and _run_flow and where the generator    *)
(* is suspended:                                                           *)
(*   "idle"            the event has not arrived                           *)
(*   "yield_..."       suspended at a yield, the message handed to the     *)
(*                     host                                                *)
(*   "wait_device", "wait_days"   suspended in the session waiter          *)
(*   "exchanging"      suspended in _post_exchange                         *)
(*   "returned"        the generator is exhausted                          *)
(*   "raised"          an exception left the generator                     *)
(* sent is what the flow has yielded, calls the remote calls it has        *)
(* started, replies the number of replies its waits have returned, resp    *)
(* what the remote end did, waited the time the flow has spent in its      *)
(* current wait (counted only by the specification that has a clock).      *)
(* validator is a call of one of the two validators on its own, outside    *)
(* any flow: the argument and, once the call is made, the result.          *)
(***************************************************************************)
VARIABLES
    max_days,             \* self.max_days
    allow_plain_trigger,  \* self.allow_plain_trigger
    wait_timeout,         \* self.wait_timeout
    active_sessions,      \* self._active_sessions
    flow,
    validator

vars == <<max_days, allow_plain_trigger, wait_timeout, active_sessions, flow,
          validator>>

config == <<max_days, allow_plain_trigger, wait_timeout>>

NewFlow ==
    [pc |-> "idle", key |-> "", message |-> <<>>, acquired |-> FALSE,
     device_msg |-> <<>>, device_b64 |-> <<>>, days_msg |-> <<>>,
     days_raw |-> <<>>, days |-> None, resp |-> None, exc |-> None,
     data |-> None, sent |-> <<>>, calls |-> <<>>, replies |-> 0,
     waited |-> 0]

NoCall == [fn |-> "none"]

\* __init__ with no configuration given: the defaults
Init ==
    /\ max_days = 3650
    /\ allow_plain_trigger = TRUE
    /\ wait_timeout = 300
    /\ active_sessions = {}
    /\ flow = [f \in FlowIds |-> NewFlow]
    /\ validator = NoCall

ConfigMaxDays == {1, 3650}

\* __init__ with max_days and allow_plain_trigger configured
ConfiguredInit ==
    /\ max_days \in ConfigMaxDays
    /\ allow_plain_trigger \in BOOLEAN
    /\ wait_timeout = 300
    /\ active_sessions = {}
    /\ flow = [f \in FlowIds |-> NewFlow]
    /\ validator = NoCall

\* yield event.plain_result(...): the message goes to the host and the
\* generator stays suspended at `at`
Yield(rec, msg, at) == [rec EXCEPT !.sent = Append(@, msg), !.pc = at]

\* mutant: the key is not discarded
Finally_keeps(key) == UNCHANGED active_sessions

\* the finally block of _run_flow
Finally(key) == active_sessions' = active_sessions \ {key}

\* yields after which the flow runs off the end of the try block
FinalYields ==
    {"yield_timeout_device", "yield_error_device", "yield_bad_device",
     "yield_timeout_days", "yield_error_days", "yield_bad_days",
     "yield_failed", "yield_short", "yield_license"}

\* mutant: the membership test is missing
session_busy_never(key) == FALSE

\* mutant: a flow of any key makes the plugin busy
session_busy_any(key) == active_sessions # {}

\* key in self._active_sessions
session_busy(key) == key \in active_sessions

\* mutant: the dispatcher starts a flow for whatever arrives
on_message_no_filter(f, k, msg) ==
    /\ flow[f].pc = "idle"
    /\ LET rec == [flow[f] EXCEPT !.key = k, !.message = msg]
       IN  IF session_busy(k)
           THEN /\ flow' = [flow EXCEPT ![f] = Yield(rec, MsgBusy, "yield_busy")]
                /\ UNCHANGED active_sessions
           ELSE /\ active_sessions' = active_sessions \cup {k}
                /\ flow' = [flow EXCEPT ![f] =
                              Yield([rec EXCEPT !.acquired = TRUE],
                                    MsgAskDevice, "yield_ask_device")]
    /\ UNCHANGED <<config, validator>>

(***************************************************************************)
(* on_message up to the first suspension of _run_flow: the event of flow f *)
(* arrives for session key k with text msg.                                *)
(***************************************************************************)
on_message(f, k, msg) ==
    /\ flow[f].pc = "idle"
    /\ LET text == strip(msg)
           rec == [flow[f] EXCEPT !.key = k, !.message = msg]
       IN  IF \/ text = <<>>
              \/ text \notin triggers
              \/ ~allow_plain_trigger /\ text = Keyword
           THEN /\ flow' = [flow EXCEPT ![f] = [rec EXCEPT !.pc = "returned"]]
                /\ UNCHANGED active_sessions
           ELSE IF session_busy(k)
           THEN /\ flow' = [flow EXCEPT ![f] = Yield(rec, MsgBusy, "yield_busy")]
                /\ UNCHANGED active_sessions
           ELSE /\ active_sessions' = active_sessions \cup {k}
                /\ flow' = [flow EXCEPT ![f] =
                              Yield([rec EXCEPT !.acquired = TRUE],
                                    MsgAskDevice, "yield_ask_device")]
    /\ UNCHANGED <<config, validator>>

\* mutant: the rejection returns through the finally block
ResumeBusy_discards(f) ==
    /\ flow[f].pc = "yield_busy"
    /\ flow' = [flow EXCEPT ![f].pc = "returned"]
    /\ active_sessions' = active_sessions \ {flow[f].key}
    /\ UNCHANGED <<config, validator>>

\* the host resumes the generator after "already in progress": return
\* before the try block
ResumeBusy(f) ==
    /\ flow[f].pc = "yield_busy"
    /\ flow' = [flow EXCEPT ![f].pc = "returned"]
    /\ UNCHANGED <<config, validator, active_sessions>>

\* resumed after the first prompt: await wait_device(event)
ResumeAskDevice(f) ==
    /\ flow[f].pc = "yield_ask_device"
    /\ flow' = [flow EXCEPT ![f].pc = "wait_device", ![f].waited = 0]
    /\ UNCHANGED <<config, validator, active_sessions>>

\* the timeout both session waiters are decorated with
WaiterTimeout == 300

\* the step of the clock
TickUnit == 60

\* time passes for a flow suspended in a session waiter; the waiter does not
\* let it pass its timeout
Tick(f) ==
    /\ flow[f].pc \in {"wait_device", "wait_days"}
    /\ flow[f].waited < WaiterTimeout
    /\ flow' = [flow EXCEPT ![f].waited =
                  IF @ + TickUnit > WaiterTimeout THEN WaiterTimeout ELSE @ + TickUnit]
    /\ UNCHANGED <<config, validator, active_sessions>>

\* the session waiter raises TimeoutError when its timeout has passed
waiter_expired(f) == flow[f].waited >= WaiterTimeout

\* a flow that asks for the day count whatever the first reply is
DeviceReply_no_check(f, msg) ==
    /\ flow[f].pc = "wait_device"
    /\ flow' = [flow EXCEPT ![f] =
                  Yield([@ EXCEPT !.device_msg = msg, !.device_b64 = strip(msg),
                                  !.replies = 1],
                        MsgAskDays, "yield_ask_days")]
    /\ UNCHANGED <<config, validator, active_sessions>>

\* wait_device returns the next message of the session, stripped
DeviceReply(f, msg) ==
    /\ flow[f].pc = "wait_device"
    /\ LET device_b64 == strip(msg)
           rec == [flow[f] EXCEPT !.device_msg = msg, !.device_b64 = device_b64,
                                  !.replies = 1]
       IN  flow' = [flow EXCEPT ![f] =
                      IF ~looks_like_base64(device_b64)
                      THEN Yield(rec, MsgBadDevice, "yield_bad_device")
                      ELSE Yield(rec, MsgAskDays, "yield_ask_days")]
    /\ UNCHANGED <<config, validator, active_sessions>>

\* wait_device raises TimeoutError
DeviceTimeout(f) ==
    /\ flow[f].pc = "wait_device"
    /\ flow' = [flow EXCEPT ![f] = Yield(@, MsgTimeout, "yield_timeout_device")]
    /\ UNCHANGED <<config, validator, active_sessions>>

\* wait_device raises another Exception
DeviceWaitError(f) ==
    /\ flow[f].pc = "wait_device"
    /\ flow' = [flow EXCEPT ![f] = Yield(@, MsgError, "yield_error_device")]
    /\ UNCHANGED <<config, validator, active_sessions>>

\* resumed after the second prompt: await wait_days(event)
ResumeAskDays(f) ==
    /\ flow[f].pc = "yield_ask_days"
    /\ flow' = [flow EXCEPT ![f].pc = "wait_days", ![f].waited = 0]
    /\ UNCHANGED <<config, validator, active_sessions>>

\* mutant: the upper bound is not tested
days_invalid_unbounded(days, max) == days.t = "NoneType" \/ days.i <= 0

\* mutant: zero is let through
days_invalid_zero_ok(days, max) ==
    days.t = "NoneType" \/ days.i < 0 \/ days.i > max

\* days is None or days <= 0 or days > self.max_days
days_invalid(days, max) == days.t = "NoneType" \/ days.i <= 0 \/ days.i > max

\* wait_days returns; a valid day count starts the remote call, whose
\* payload is device_b64 and days
DaysReply(f, msg) ==
    /\ flow[f].pc = "wait_days"
    /\ LET days_raw == strip(msg)
           days == safe_int(days_raw)
           rec == [flow[f] EXCEPT !.days_msg = msg, !.days_raw = days_raw,
                                  !.days = days, !.replies = 2]
       IN  flow' = [flow EXCEPT ![f] =
                      IF days_invalid(days, max_days)
                      THEN Yield(rec, MsgBadDays, "yield_bad_days")
                      ELSE [rec EXCEPT
                              !.calls = Append(@, [deviceBase64 |-> rec.device_b64,
                                                   days |-> days.i]),
                              !.pc = "exchanging"]]
    /\ UNCHANGED <<config, validator, active_sessions>>

DaysTimeout(f) ==
    /\ flow[f].pc = "wait_days"
    /\ flow' = [flow EXCEPT ![f] = Yield(@, MsgTimeout, "yield_timeout_days")]
    /\ UNCHANGED <<config, validator, active_sessions>>

DaysWaitError(f) ==
    /\ flow[f].pc = "wait_days"
    /\ flow' = [flow EXCEPT ![f] = Yield(@, MsgError, "yield_error_days")]
    /\ UNCHANGED <<config, validator, active_sessions>>

\* not isinstance(data, dict) or not data.get("ok")
refused(data) == ~isinstance(data, {"dict"}) \/ ~truthy(get(data, "ok", None))

\* lines 187-194: the rendered block, or the exception raised on the way
info_text(data) ==
    LET system_info == or(get(data, "system_info", None), EmptyDict)
        expire == get(data, "expire", None)
        ms == int_of_expire(expire)
    IN  IF ms.raised THEN ms ELSE render_device_info(system_info, ms.value)

\* _post_exchange ends, the remote end having done resp
ExchangeDone(f, resp) ==
    /\ flow[f].pc = "exchanging"
    /\ LET got == post_exchange(resp)
           rec == [flow[f] EXCEPT !.resp = resp]
       IN  IF got.raised
           THEN /\ flow' = [flow EXCEPT ![f] =
                              Yield([rec EXCEPT !.exc = got.exc], MsgFailed, "yield_failed")]
                /\ UNCHANGED active_sessions
           ELSE IF refused(got.value)
           THEN /\ flow' = [flow EXCEPT ![f] =
                              Yield([rec EXCEPT !.data = got.value],
                                    MsgShort(got.value), "yield_short")]
                /\ UNCHANGED active_sessions
           ELSE IF info_text(got.value).raised
           THEN /\ flow' = [flow EXCEPT ![f] =
                              [rec EXCEPT !.data = got.value,
                                          !.exc = [t |-> info_text(got.value).exc],
                                          !.pc = "raised"]]
                /\ Finally(flow[f].key)
           ELSE /\ flow' = [flow EXCEPT ![f] =
                              Yield([rec EXCEPT !.data = got.value],
                                    info_text(got.value).value, "yield_info")]
                /\ UNCHANGED active_sessions
    /\ UNCHANGED <<config, validator>>

\* resumed after the device-info block: the licence, alone in its message
ResumeInfo(f) ==
    /\ flow[f].pc = "yield_info"
    /\ flow' = [flow EXCEPT ![f] =
                  Yield(@, Plain(str(get(flow[f].data, "license", PyStr("")))),
                        "yield_license")]
    /\ UNCHANGED <<config, validator, active_sessions>>

\* mutant: an invalid day count is asked for again
ResumeFinal_retries(f) ==
    /\ flow[f].pc \in FinalYields
    /\ IF flow[f].pc = "yield_bad_days"
       THEN /\ flow' = [flow EXCEPT ![f] = Yield(@, MsgAskDays, "yield_ask_days")]
            /\ UNCHANGED active_sessions
       ELSE /\ flow' = [flow EXCEPT ![f].pc = "returned"]
            /\ Finally(flow[f].key)
    /\ UNCHANGED <<config, validator>>

\* resumed after a last message: return, through the finally block
ResumeFinal(f) ==
    /\ flow[f].pc \in FinalYields
    /\ flow' = [flow EXCEPT ![f].pc = "returned"]
    /\ Finally(flow[f].key)
    /\ UNCHANGED <<config, validator>>

(***************************************************************************)
(* Inputs.  Spec interleaves MaxFlows flows of a plugin with the default   *)
(* configuration over a few inputs of each kind; FlowSpec runs one flow of *)
(* a configured plugin over many.                                          *)
(***************************************************************************)
QUJD == <<"Q", "U", "J", "D">>

TriggerMsgs == {<<"a", "u", "t", "h">>, Keyword, <<"h", "i">>}

DeviceMsgs == {QUJD, <<"!">>}

DaysMsgs == {<<"1">>, <<"0">>}

Http(status, text) == [kind |-> "http", status |-> status, text |-> text]

Transport(error) == [kind |-> "transport", error |-> error]

Responses ==
    {Transport("TimeoutError"), Http(200, BodyGood), Http(200, BodyDenied),
     Http(200, BodyListInfo)}

ManyTriggerMsgs ==
    triggers \cup {<<" ">> \o Keyword \o <<"\n">>, <<" ", "a", "u", "t", "h">>,
                   <<>>, <<" ">>, <<"h", "i">>, <<"a", "u", "t", "h", "!">>}

ManyDeviceMsgs ==
    {<<"Q", "U", "J", "D", "R", "A", "=", "=">>, <<" ">> \o QUJD \o <<" ">>,
     <<"A", "B">>, <<"A">>, <<"a", "_", "b", "-">>, <<"_", "_">>, <<"=">>,
     <<"!">>, <<"U+00E9">>, <<"A", " ", "B">>, <<>>, <<" ">>}

ManyDaysMsgs ==
    {<<"0">>, <<"-", "5">>, <<"9", "9", "9", "9", "9", "9">>, <<"a", "b", "c">>,
     <<"3", "0">>, <<"1">>, <<"2">>, <<"3", "6", "5", "0">>,
     <<"3", "6", "5", "1">>, <<" ", "7", " ">>, <<"+", "5">>, <<"1", "_", "0">>,
     <<"3", ".", "5">>, <<"-", "0">>, <<>>}

Statuses == {100, 199, 200, 201, 204, 298, 299, 300, 301, 404, 500, 503}

Bodies ==
    {BodyGood, BodyOkOne, BodyOkOnly, BodyNullFields, BodyListInfo, BodyStrInfo,
     BodyInfExpire, BodyNanExpire, BodyHugeExpire, BodyDenied, BodyNoOk,
     BodyLongError, BodyEmptyDict, BodyList, BodyNull, BodyString, BodyHtml,
     BodyEmpty}

ManyResponses ==
    {Transport("ClientConnectorError"), Transport("TimeoutError")}
        \cup {Http(st, b) : st \in Statuses, b \in Bodies}

Next ==
    \E f \in FlowIds :
        \/ \E k \in SessionKeys, msg \in TriggerMsgs : on_message(f, k, msg)
        \/ ResumeBusy(f)
        \/ ResumeAskDevice(f)
        \/ \E msg \in DeviceMsgs : DeviceReply(f, msg)
        \/ DeviceTimeout(f)
        \/ DeviceWaitError(f)
        \/ ResumeAskDays(f)
        \/ \E msg \in DaysMsgs : DaysReply(f, msg)
        \/ DaysTimeout(f)
        \/ DaysWaitError(f)
        \/ \E resp \in Responses : ExchangeDone(f, resp)
        \/ ResumeInfo(f)
        \/ ResumeFinal(f)

Spec == Init /\ [][Next]_vars

\* the steps of flow f after its trigger: the host resuming the generator,
\* a wait delivering a reply, timing out or failing, the remote call
\* returning or failing
Progress(f) ==
    \/ ResumeBusy(f)
    \/ ResumeAskDevice(f)
    \/ \E msg \in DeviceMsgs : DeviceReply(f, msg)
    \/ DeviceTimeout(f)
    \/ DeviceWaitError(f)
    \/ ResumeAskDays(f)
    \/ \E msg \in DaysMsgs : DaysReply(f, msg)
    \/ DaysTimeout(f)
    \/ DaysWaitError(f)
    \/ \E resp \in Responses : ExchangeDone(f, resp)
    \/ ResumeInfo(f)
    \/ ResumeFinal(f)

\* the flows of one session key, started by one trigger text
LiveNext ==
    \E f \in FlowIds :
        \/ on_message(f, "k1", <<"a", "u", "t", "h">>)
        \/ Progress(f)

\* a host that keeps consuming what a flow yields, waits that end and
\* remote calls that end; a trigger need not arrive
FairSpec == Init /\ [][LiveNext]_vars /\ \A f \in FlowIds : WF_vars(Progress(f))

FlowNext ==
    \/ \E msg \in ManyTriggerMsgs : on_message(1, "k1", msg)
    \/ ResumeAskDevice(1)
    \/ \E msg \in ManyDeviceMsgs : DeviceReply(1, msg)
    \/ DeviceTimeout(1)
    \/ DeviceWaitError(1)
    \/ ResumeAskDays(1)
    \/ \E msg \in ManyDaysMsgs : DaysReply(1, msg)
    \/ DaysTimeout(1)
    \/ DaysWaitError(1)
    \/ \E resp \in ManyResponses : ExchangeDone(1, resp)
    \/ ResumeInfo(1)
    \/ ResumeFinal(1)

FlowSpec == ConfiguredInit /\ [][FlowNext]_vars

(***************************************************************************)
(* DispatchSpec: the dispatcher before several flows; many inbound texts,  *)
(* one good answer at each later step.                                     *)
(***************************************************************************)
DispatchMsgs ==
    {<<"a", "u", "t", "h">>, <<" ", "a", "u", "t", "h">>, <<>>, <<" ">>,
     <<"h", "i">>, <<"a", "u", "t", "h", "!">>}

DispatchNext ==
    \E f \in FlowIds :
        \/ \E k \in SessionKeys, msg \in DispatchMsgs : on_message(f, k, msg)
        \/ ResumeBusy(f)
        \/ ResumeAskDevice(f)
        \/ DeviceReply(f, QUJD)
        \/ DeviceTimeout(f)
        \/ DeviceWaitError(f)
        \/ ResumeAskDays(f)
        \/ DaysReply(f, <<"1">>)
        \/ DaysTimeout(f)
        \/ DaysWaitError(f)
        \/ ExchangeDone(f, Http(200, BodyGood))
        \/ ResumeInfo(f)
        \/ ResumeFinal(f)

DispatchSpec == Init /\ [][DispatchNext]_vars

(***************************************************************************)
(* WaitSpec: one flow with a clock, of a plugin whose wait_timeout is      *)
(* configured.  Time passes in steps of TickUnit while the flow is in a    *)
(* session waiter, and the waiter times out when its timeout has passed.   *)
(***************************************************************************)
ConfigWaitTimeouts == {60, 300, 600}

WaitInit ==
    /\ max_days = 3650
    /\ allow_plain_trigger = TRUE
    /\ wait_timeout \in ConfigWaitTimeouts
    /\ active_sessions = {}
    /\ flow = [f \in FlowIds |-> NewFlow]
    /\ validator = NoCall

WaitNext ==
    \/ \E msg \in TriggerMsgs : on_message(1, "k1", msg)
    \/ ResumeAskDevice(1)
    \/ Tick(1)
    \/ \E msg \in DeviceMsgs : DeviceReply(1, msg)
    \/ waiter_expired(1) /\ DeviceTimeout(1)
    \/ DeviceWaitError(1)
    \/ ResumeAskDays(1)
    \/ \E msg \in DaysMsgs : DaysReply(1, msg)
    \/ waiter_expired(1) /\ DaysTimeout(1)
    \/ DaysWaitError(1)
    \/ \E resp \in Responses : ExchangeDone(1, resp)
    \/ ResumeInfo(1)
    \/ ResumeFinal(1)

WaitSpec == WaitInit /\ [][WaitNext]_vars

(***************************************************************************)
(* The validators on their own: ValidatorSpec calls _looks_like_base64 on  *)
(* every text of up to MaxLen characters of TextAlphabet, and the day      *)
(* count check of line 170 on str(d) for every integer d within MaxDay + 2 *)
(* of zero, with every max_days from -1 to MaxDay.                         *)
(***************************************************************************)
MaxLen == 3

MaxDay == 11

TextAlphabet == {"A", "0", "+", "=", "_", "-", " ", "!", "U+00E9"}

Texts == UNION {[1..n -> TextAlphabet] : n \in 0..MaxLen}

\* str(n) of an int
RECURSIVE nat_text(_)
nat_text(n) ==
    LET digit == <<"0", "1", "2", "3", "4", "5", "6", "7", "8", "9">>[(n % 10) + 1]
    IN  IF n < 10 THEN <<digit>> ELSE nat_text(n \div 10) \o <<digit>>

int_text(d) == IF d < 0 THEN <<"-">> \o nat_text(0 - d) ELSE nat_text(d)

ValidatorInit ==
    /\ allow_plain_trigger = TRUE
    /\ wait_timeout = 300
    /\ active_sessions = {}
    /\ flow = [f \in FlowIds |-> NewFlow]
    /\ \/ /\ max_days = 3650
          /\ validator \in {[fn |-> "_looks_like_base64", arg |-> t, done |-> FALSE,
                              out |-> FALSE] : t \in Texts}
       \/ /\ max_days \in (0 - 1)..MaxDay
          /\ validator \in {[fn |-> "day count", d |-> d, arg |-> int_text(d),
                              done |-> FALSE, out |-> FALSE] :
                                d \in (0 - (MaxDay + 2))..(MaxDay + 2)}

\* _looks_like_base64(arg)
CheckDeviceId ==
    /\ validator.fn = "_looks_like_base64" /\ ~validator.done
    /\ validator' = [validator EXCEPT !.done = TRUE,
                                      !.out = looks_like_base64(validator.arg)]
    /\ UNCHANGED <<config, active_sessions, flow>>

\* the day count is accepted: not (days is None or days <= 0 or
\* days > self.max_days), days being _safe_int(arg)
CheckDayCount ==
    /\ validator.fn = "day count" /\ ~validator.done
    /\ validator' = [validator EXCEPT !.done = TRUE,
                                      !.out = ~days_invalid(safe_int(validator.arg),
                                                            max_days)]
    /\ UNCHANGED <<config, active_sessions, flow>>

ValidatorNext == CheckDeviceId \/ CheckDayCount

ValidatorSpec == ValidatorInit /\ [][ValidatorNext]_vars

(***************************************************************************)
(* Properties.                                                             *)
(***************************************************************************)
Ended(f) == flow[f].pc \in {"returned", "raised"}

\* flow f inserted its key and its generator has not finished
Holding(f) == flow[f].acquired /\ ~Ended(f)

\* flow f was turned away as a second flow of its key
Rejected(f) == flow[f].sent # <<>> /\ flow[f].sent[1] = MsgBusy

Last(seq) == seq[Len(seq)]

\* C1: at no time do two flows of one session key hold the key (be between
\* the insertion at flow entry and the end of the generator, so in
\* particular in AwaitingDeviceId, AwaitingDays or Exchanging); a flow that
\* holds a key has it in the active set, and a flow enters holding its key
\* only in a step that found the key absent and inserted it.
C1_OneFlowPerKey ==
    /\ \A f, g \in FlowIds :
          Holding(f) /\ Holding(g) /\ flow[f].key = flow[g].key => f = g
    /\ \A f \in FlowIds : Holding(f) => flow[f].key \in active_sessions
    /\ \A f \in FlowIds :
          flow[f].pc \in {"yield_ask_device", "wait_device", "yield_ask_days",
                          "wait_days", "exchanging"} => Holding(f)

\* two flows of one key, the first awaiting the day count, the second
\* turned away
C1_Witness ==
    \E f, g \in FlowIds :
        /\ f # g
        /\ flow[f].key = flow[g].key
        /\ flow[f].pc = "wait_days"
        /\ flow[g].pc = "yield_busy"

\* C2: a trigger for a key that is in the active set is answered with
\* "already in progress" alone; that step and the end of the rejected
\* generator change neither the active set nor any other flow, and the
\* rejected flow never emits anything else, waits, or calls the remote
\* service.
C2_RejectedStep(f) ==
    /\ flow[f].pc = "idle" /\ flow'[f].pc # "idle"
    /\ strip(flow'[f].message) \in triggers
    /\ allow_plain_trigger \/ strip(flow'[f].message) # Keyword
    /\ flow'[f].key \in active_sessions

C2_SecondFlowRejected ==
    /\ [](\A f \in FlowIds :
            Rejected(f) =>
                /\ flow[f].sent = <<MsgBusy>>
                /\ flow[f].calls = <<>>
                /\ flow[f].replies = 0
                /\ ~flow[f].acquired
                /\ flow[f].pc \in {"yield_busy", "returned"})
    /\ [][\A f \in FlowIds :
            /\ C2_RejectedStep(f) => flow'[f].pc = "yield_busy"
            /\ (C2_RejectedStep(f) \/ (Rejected(f) /\ flow'[f] # flow[f])) =>
                  /\ active_sessions' = active_sessions
                  /\ \A g \in FlowIds \ {f} : flow'[g] = flow[g]]_vars

\* the rejected generator has finished while the original flow, its device
\* id collected, still holds the key
C2_Witness ==
    \E f, g \in FlowIds :
        /\ Rejected(g) /\ flow[g].pc = "returned"
        /\ flow[f].key = flow[g].key
        /\ flow[f].pc = "wait_days" /\ flow[f].device_b64 = QUJD
        /\ flow[f].key \in active_sessions

\* C3: every key in the active set is held by a flow that inserted it and
\* has not finished; so a flow that has ended, by return or by an exception,
\* has not left its key behind.
C3_NoKeyLeftBehind ==
    \A k \in active_sessions :
        \E f \in FlowIds : Holding(f) /\ flow[f].key = k

\* one flow was ended by an exception after the insertion, another by a
\* timeout, and the active set is empty
C3_Witness ==
    \E f, g \in FlowIds :
        /\ flow[f].acquired /\ flow[f].pc = "raised"
        /\ flow[g].acquired /\ flow[g].pc = "returned"
        /\ Last(flow[g].sent) = MsgTimeout
        /\ active_sessions = {}

\* C4, as claimed: once a flow has yielded "timeout", a trigger for its key
\* (no third flow holding the key) is accepted and prompted for the device
\* id, never answered "already in progress".
C4_TriggerAfterTimeoutAccepted ==
    [][\A f, g \in FlowIds :
          (/\ f # g
           /\ flow[f].acquired
           /\ Last(flow[f].sent) = MsgTimeout
           /\ C2_RejectedStep(g)
           /\ flow'[g].key = flow[f].key
           /\ \A h \in FlowIds \ {f, g} :
                 ~(Holding(h) /\ flow[h].key = flow[f].key))
          => flow'[g].pc = "yield_ask_device"]_vars

\* C5: every remote call a flow has started carries a day count in
\* 1..max_days, the integer the second reply denotes, and as device token
\* the first reply as the wait returned it (the message text, trimmed),
\* which passes the base64 check; a flow with a call has had two replies and
\* has sent no validation or timeout message.
C5_CallArguments ==
    \A f \in FlowIds :
        \A i \in 1..Len(flow[f].calls) :
            LET call == flow[f].calls[i]
            IN  /\ call.days \in 1..max_days
                /\ int_of_str(flow[f].days_msg) = [ok |-> TRUE, value |-> call.days]
                /\ call.deviceBase64 = strip(flow[f].device_msg)
                /\ looks_like_base64(call.deviceBase64)
                /\ flow[f].replies = 2
                /\ \A j \in 1..Len(flow[f].sent) :
                      flow[f].sent[j] \notin {MsgBadDevice, MsgBadDays, MsgTimeout, MsgError}

\* the call was made with the largest day count and a token whose message
\* came with blanks around it
C5_Witness ==
    \E f \in FlowIds :
        /\ flow[f].pc = "exchanging"
        /\ max_days = 3650
        /\ flow[f].device_msg = <<" ">> \o QUJD \o <<" ">>
        /\ flow[f].calls = <<[deviceBase64 |-> QUJD, days |-> 3650]>>

\* the remote end answered with an object whose ok is truthy
OkResponse(f) ==
    /\ flow[f].data.t = "dict"
    /\ truthy(get(flow[f].data, "ok", None))

\* C6, as claimed: a flow that got an object with truthy ok ends by return,
\* having sent after the two prompts exactly the device-info block and then
\* the licence alone.
C6_TwoMessagesOnSuccess ==
    \A f \in FlowIds :
        Ended(f) /\ OkResponse(f) =>
            /\ flow[f].pc = "returned"
            /\ Len(flow[f].sent) = 4
            /\ flow[f].sent[3].kind = "device info"
            /\ flow[f].sent[4] = Plain(str(get(flow[f].data, "license", PyStr(""))))

\* what the claim calls an invalid day count, read off the reply itself
DayCountBad(msg) ==
    LET r == int_of_str(msg)
    IN  ~r.ok \/ r.value <= 0 \/ r.value > max_days

\* C7: a second reply that is no integer, or an integer below 1 or above
\* max_days, is answered with "day count invalid" as the last message; no
\* remote call is made and the key is gone when the flow has ended.
C7_BadDayCount ==
    \A f \in FlowIds :
        flow[f].replies = 2 /\ DayCountBad(flow[f].days_msg) =>
            /\ Last(flow[f].sent) = MsgBadDays
            /\ flow[f].calls = <<>>
            /\ flow[f].pc \in {"yield_bad_days", "returned"}
            /\ flow[f].pc = "returned" => flow[f].key \notin active_sessions

C7_Witness ==
    \E f \in FlowIds :
        /\ flow[f].pc = "returned"
        /\ max_days = 3650
        /\ flow[f].days_msg = <<"9", "9", "9", "9", "9", "9">>
        /\ Last(flow[f].sent) = MsgBadDays
        /\ flow[f].key \notin active_sessions

\* what the claim calls a failed remote call, read off the response
RemoteFailed(resp) ==
    \/ resp.kind = "transport"
    \/ resp.kind = "http" /\ resp.status \notin 200..299
    \/ resp.kind = "http" /\ resp.text \in {BodyHtml, BodyEmpty}

\* C8: after a failed remote call the flow has sent the two prompts and then
\* "request failed" (the fixed text, nothing of the failure) and nothing
\* else; the key is gone when the flow has ended.
C8_RequestFailed ==
    \A f \in FlowIds :
        flow[f].resp # None /\ RemoteFailed(flow[f].resp) =>
            /\ flow[f].sent = <<MsgAskDevice, MsgAskDays, MsgFailed>>
            /\ flow[f].pc \in {"yield_failed", "returned"}
            /\ flow[f].pc = "returned" => flow[f].key \notin active_sessions

C8_Witness ==
    \E f \in FlowIds :
        /\ flow[f].pc = "returned"
        /\ flow[f].resp = Http(500, BodyGood)
        /\ Last(flow[f].sent) = MsgFailed
        /\ flow[f].key \notin active_sessions

\* the exchange client raised its error for the HTTP status
StatusError(f) ==
    /\ flow[f].exc.t = "RuntimeError"
    /\ flow[f].exc.what = "HTTP"

Answered(f) == flow[f].resp # None /\ flow[f].resp.kind = "http"

\* C9, as claimed: a response with a parseable body fails for its status
\* exactly when the status is below 200 or at least 299.
C9_FailsOutside200To298 ==
    \A f \in FlowIds :
        Answered(f) /\ json_loads(flow[f].resp.text).ok =>
            (StatusError(f) <=> flow[f].resp.status < 200 \/ flow[f].resp.status >= 299)

\* C9, amended: the exchange client fails for the status exactly when it is
\* below 200 or at least 300; a response with status in 200..299 and a
\* parseable body is returned parsed.
C9_FailsOutside200To299 ==
    \A f \in FlowIds :
        Answered(f) =>
            /\ StatusError(f) <=> flow[f].resp.status \notin 200..299
            /\ flow[f].resp.status \in 200..299 /\ json_loads(flow[f].resp.text).ok =>
                  flow[f].data = json_loads(flow[f].resp.text).value

\* status 299 with a good body went on to the device-info block
C9_Witness ==
    \E f \in FlowIds :
        /\ flow[f].resp = Http(299, BodyGood)
        /\ flow[f].pc = "yield_info"
        /\ flow[f].data = json_loads(BodyGood).value

IsFailure(msg) ==
    \/ msg \in {MsgTimeout, MsgError, MsgBadDevice, MsgBadDays, MsgFailed}
    \/ msg.kind = "short"

\* C10: a flow starts at most one remote call, and a failure message is the
\* last thing a flow does: it is the last message sent, the flow is
\* suspended at that yield or has returned (it neither waits nor calls), and
\* a remote call was made only if the failure is that of the call or of the
\* response.
C10_FailureIsTerminal ==
    \A f \in FlowIds :
        /\ Len(flow[f].calls) <= 1
        /\ \A i \in 1..Len(flow[f].sent) :
              IsFailure(flow[f].sent[i]) =>
                  /\ i = Len(flow[f].sent)
                  /\ flow[f].pc \in FinalYields \cup {"returned"}
                  /\ flow[f].calls # <<>> =>
                        flow[f].sent[i] = MsgFailed \/ flow[f].sent[i].kind = "short"

\* one flow ended on an invalid day count, another on a failed call
C10_Witness ==
    \E f, g \in FlowIds :
        /\ flow[f].pc = "returned" /\ flow[f].acquired
        /\ Last(flow[f].sent) = MsgBadDays
        /\ flow[g].pc = "returned" /\ flow[g].acquired
        /\ Last(flow[g].sent) = MsgFailed
        /\ Len(flow[g].calls) = 1

\* the alphabet the claim names: [A-Za-z0-9+/=_-]
InDeviceAlphabet(ch) == ch \in AsciiLetters \cup Digits \cup {"+", "/", "=", "_", "-"}

DeviceIdChecked ==
    validator.fn = "_looks_like_base64" /\ validator.done

\* C11, as claimed: the device-id check returns false for every text with a
\* character outside [A-Za-z0-9+/=_-], blanks at its ends included, and for
\* the empty text.
C11_OutsideAlphabetRejected ==
    DeviceIdChecked =>
        ((\/ validator.arg = <<>>
          \/ \E i \in 1..Len(validator.arg) : ~InDeviceAlphabet(validator.arg[i]))
         => ~validator.out)

\* C11, amended: the device-id check returns false for every text that,
\* with the whitespace at its two ends removed, is empty or has a character
\* outside [A-Za-z0-9+/=_-].
C11_OutsideAlphabetRejectedAfterTrim ==
    DeviceIdChecked =>
        LET s == strip(validator.arg)
        IN  (s = <<>> \/ \E i \in 1..Len(s) : ~InDeviceAlphabet(s[i]))
            => ~validator.out

\* a blank between two letters is refused
C11_Witness ==
    /\ DeviceIdChecked
    /\ validator.arg = <<"A", " ", "A">>
    /\ ~validator.out

DayCountChecked == validator.fn = "day count" /\ validator.done

\* C12: for every integer d and every bound max_days, the day-count check
\* accepts the text of d exactly when 1 <= d <= max_days.
C12_AcceptsOneToMax ==
    DayCountChecked =>
        (validator.out <=> (1 <= validator.d /\ validator.d <= max_days))

\* the upper boundary, a two-digit count, is accepted
C12_Witness ==
    /\ DayCountChecked
    /\ validator.d = 11 /\ max_days = 11
    /\ validator.arg = <<"1", "1">>
    /\ validator.out

\* C13, as claimed: with allow_plain_trigger false only the command form
\* (the keyword behind a slash) starts a flow; any other text is ignored
\* with nothing sent and nothing inserted.
C13_OnlyCommandFormStarts ==
    \A f \in FlowIds :
        ~allow_plain_trigger /\ flow[f].pc # "idle" =>
            \/ strip(flow[f].message) = <<"/">> \o Keyword
            \/ /\ ~flow[f].acquired
               /\ flow[f].sent = <<>>
               /\ flow[f].pc = "returned"

\* C14, as claimed: a flow waits at a prompt for wait_timeout and no longer,
\* and it is after wait_timeout that it times out.
C14_WaitsConfiguredTimeout ==
    \A f \in FlowIds :
        /\ flow[f].pc \in {"wait_device", "wait_days"} =>
              flow[f].waited <= wait_timeout
        /\ flow[f].pc \in {"yield_timeout_device", "yield_timeout_days"} =>
              flow[f].waited = wait_timeout

\* C15: no exception leaves a flow; a flow that went through its wait and
\* remote-call failures, or through any response passing the ok check, ends
\* by sending a message and returning.
C15_NoFailureEscapes ==
    \A f \in FlowIds :
        /\ flow[f].pc # "raised"
        /\ flow[f].acquired /\ flow[f].pc = "returned" => flow[f].sent # <<>>

\* the states of the spec's flow machine: 0 Idle, 1 AwaitingDeviceId,
\* 2 AwaitingDays, 3 Exchanging, 4 Terminal
Stage(rec) ==
    CASE rec.pc = "idle" -> 0
      [] rec.pc \in {"yield_ask_device", "wait_device"} -> 1
      [] rec.pc \in {"yield_ask_days", "wait_days"} -> 2
      [] rec.pc = "exchanging" -> 3
      [] OTHER -> 4

AskedDays(f) == \E i \in 1..Len(flow[f].sent) : flow[f].sent[i] = MsgAskDays

\* C16: a flow only moves forward through Idle, AwaitingDeviceId,
\* AwaitingDays, Exchanging, Terminal, to the next stage or to Terminal;
\* the day-count prompt is sent only after a first reply that passed the
\* device-id check; after a first reply that fails the check the flow has
\* sent the device prompt and "device id format invalid" and nothing more,
\* has not waited a second time and has made no remote call.
C16_ForwardOnly ==
    /\ [](\A f \in FlowIds :
            /\ AskedDays(f) \/ Stage(flow[f]) \in {2, 3} =>
                  flow[f].replies >= 1 /\ looks_like_base64(flow[f].device_b64)
            /\ flow[f].replies >= 1 /\ ~looks_like_base64(flow[f].device_b64) =>
                  /\ flow[f].sent = <<MsgAskDevice, MsgBadDevice>>
                  /\ flow[f].pc \in {"yield_bad_device", "returned"}
                  /\ flow[f].replies = 1
                  /\ flow[f].days_msg = <<>>
                  /\ flow[f].calls = <<>>)
    /\ [][\A f \in FlowIds :
            \/ Stage(flow'[f]) = Stage(flow[f])
            \/ Stage(flow'[f]) = Stage(flow[f]) + 1
            \/ Stage(flow'[f]) = 4]_vars

\* a first reply failed the device-id check and the flow has returned
C16_Witness ==
    \E f \in FlowIds :
        /\ flow[f].replies = 1
        /\ ~looks_like_base64(flow[f].device_b64)
        /\ flow[f].pc = "returned"
        /\ Last(flow[f].sent) = MsgBadDevice

\* the remote call returned a parsed body that is no object or whose ok is
\* falsy, read off the response
RefusedResponse(f) ==
    /\ flow[f].resp # None
    /\ flow[f].resp.kind = "http"
    /\ flow[f].resp.status \in 200..299
    /\ flow[f].resp.text \in
          {BodyDenied, BodyNoOk, BodyLongError, BodyEmptyDict, BodyList, BodyNull,
           BodyString}

\* C17: after a parsed body that is no object or whose ok is falsy the flow
\* sends exactly one message, the first 400 characters of the textual form
\* of the body (all of it when it is shorter), and then returns; no
\* device-info block and no licence are sent, and the key is gone when the
\* flow has returned.
C17_RefusedIsShortened ==
    \A f \in FlowIds :
        RefusedResponse(f) =>
            /\ flow[f].pc \in {"yield_short", "returned"}
            /\ Len(flow[f].sent) = 3
            /\ flow[f].sent[1] = MsgAskDevice
            /\ flow[f].sent[2] = MsgAskDays
            /\ LET text == flow[f].sent[3].text
                   whole == str(json_loads(flow[f].resp.text).value)
               IN  /\ Len(text) <= 400
                   /\ text = SubSeq(whole, 1, Len(text))
                   /\ Len(text) = 400 \/ text = whole
            /\ flow[f].pc = "returned" => flow[f].key \notin active_sessions

\* a refusal of more than 400 characters was cut to 400, and the flow has
\* returned
C17_Witness ==
    \E f \in FlowIds :
        /\ flow[f].pc = "returned"
        /\ flow[f].resp = Http(200, BodyLongError)
        /\ Len(str(flow[f].data)) > 400
        /\ Len(flow[f].sent[3].text) = 400
        /\ active_sessions = {}

\* C18: flows of different session keys do not block one another.  While a
\* flow A holds its key, in whatever state short of its end, a trigger for
\* another key that no flow holds is accepted and prompted; and no step of a
\* flow for another key changes A's record (the values it collected, its
\* position) or takes A's key out of the active set.
C18_KeysAreIndependent ==
    [][\A a, b \in FlowIds :
          Holding(a) /\ flow'[b] # flow[b] /\ flow'[b].key # flow[a].key =>
              /\ flow'[a] = flow[a]
              /\ flow[a].key \in active_sessions'
              /\ flow[b].pc = "idle"
                 /\ strip(flow'[b].message) \in triggers
                 /\ flow'[b].key \notin active_sessions =>
                     /\ flow'[b].pc = "yield_ask_device"
                     /\ flow'[b].sent = <<MsgAskDevice>>
                     /\ flow'[b].key \in active_sessions']_vars

\* while one flow is blocked in the remote call, a flow of another key went
\* all the way to its licence
C18_Witness ==
    \E a, b \in FlowIds :
        /\ flow[a].pc = "exchanging"
        /\ flow[a].key \in active_sessions
        /\ flow[b].acquired
        /\ flow[b].key # flow[a].key
        /\ flow[b].pc = "yield_license"
        /\ flow[b].key \in active_sessions

\* no flow is waiting for a reply of session key k
NoFlowAwaits(k) ==
    \A g \in FlowIds :
        ~(flow[g].key = k /\ flow[g].pc \in {"wait_device", "wait_days"})

\* the dispatcher took the event of flow f and ignored it: no flow started,
\* nothing sent, the active set as it was
IgnoredStep(f) ==
    /\ flow'[f].pc = "returned"
    /\ flow'[f].sent = <<>>
    /\ ~flow'[f].acquired
    /\ flow'[f].calls = <<>>
    /\ active_sessions' = active_sessions

\* C19, as claimed: a message whose text is empty or is not, as it stands,
\* one of the trigger texts is ignored by the dispatcher.
C19_NotExactTextIgnored ==
    [][\A f \in FlowIds :
          /\ flow[f].pc = "idle" /\ flow'[f].pc # "idle"
          /\ NoFlowAwaits(flow'[f].key)
          /\ flow'[f].message = <<>> \/ flow'[f].message \notin triggers
          => IgnoredStep(f)]_vars

\* C19: a message whose text, once the blanks around it are taken off, is
\* empty or is not one of the trigger texts, arriving when no flow awaits a
\* reply for its key, is ignored by the dispatcher: no flow is started,
\* nothing is sent and the active set stays as it was.
C19_NonTriggerIgnored ==
    [][\A f \in FlowIds :
          /\ flow[f].pc = "idle" /\ flow'[f].pc # "idle"
          /\ NoFlowAwaits(flow'[f].key)
          /\ \/ strip(flow'[f].message) = <<>>
             \/ strip(flow'[f].message) \notin triggers
          => IgnoredStep(f)]_vars

\* a text that only begins like a trigger was ignored while a flow of
\* another key holds its key
C19_Witness ==
    \E f, g \in FlowIds :
        /\ flow[f].message = <<"a", "u", "t", "h", "!">>
        /\ flow[f].pc = "returned"
        /\ flow[f].sent = <<>>
        /\ Holding(g)
        /\ flow[g].key # flow[f].key
        /\ active_sessions = {flow[g].key}

\* C20, as claimed: with waits and remote calls that end and a host that
\* keeps consuming, every flow that inserted its key comes to a terminal
\* outcome, its last message sent and the generator returned, and every key
\* in the active set is taken out of it later.
C20_EveryFlowReachesOutcome ==
    /\ \A f \in FlowIds :
          flow[f].acquired ~> (flow[f].pc = "returned" /\ flow[f].sent # <<>>)
    /\ \A k \in SessionKeys :
          (k \in active_sessions) ~> (k \notin active_sessions)
====
